---------------------------- MODULE Spec2Model ----------------------------
(***************************************************************************)
(* The /extract_context handler of backend/app.py: one clarification turn  *)
(* of the recipe assistant.  A turn takes a request (text, optional        *)
(* previous_context, clarification_count), may call the language model     *)
(* (the oracle), decodes its raw text, normalises and merges the three     *)
(* preference fields, and answers with a context or with an error.         *)
(*                                                                         *)
(* JSON values: a field value is a string, or None for JSON null and for   *)
(* a key that is absent (dict.get gives None for both).  Missing is a      *)
(* request key that is absent where the code tells the two apart.          *)
(***************************************************************************)
EXTENDS Integers, Sequences, FiniteSets, TLC

None == "<None>"
Missing == "<Missing>"

\* ------------------------------------------------------------------ bounds
\* clarification_count ranges over 0..MaxCount
MaxCount == 4
\* the normalization is applied up to MaxApply times to one triple
MaxApply == 2
\* a recipe source finds up to MaxItems items
MaxItems == 2

\* ------------------------------------------------------- program constants
MAX_CLARIFICATIONS == 3

FieldKeys == <<"diet_type", "cuisine", "dish_attributes">>
Keys == {"diet_type", "cuisine", "dish_attributes"}

no_preference_phrases ==
    {"no preference", "any", "anything", "whatever", "doesn't matter"}

DietQuestion ==
    "What kind of diet are you following (vegetarian, vegan, or non-vegetarian)?"
CuisineQuestion == "What type of cuisine are you interested in?"
AttributesQuestion ==
    "Do you have any specific preferences for the dish (e.g., spicy, creamy, quick to make)?"

\* the canonical question the code appends for a key
QuestionFor(key) ==
    IF key = "diet_type" THEN DietQuestion
    ELSE IF key = "cuisine" THEN CuisineQuestion
    ELSE AttributesQuestion

\* ------------------------------------------------------------ input domains
\* request texts (None is a JSON null, Missing is no 'text' key)
Texts == {"Spicy Food", "vegan pasta"}
TextInputs == Texts \cup {None, Missing}

\* values a previous_context may hold for a field
PrevVals == {None, "null", "", "any", "italian"}
\* NoContext: previous_context absent, null or {} (all falsy in Python)
NoContext == [absent |-> TRUE]
Contexts == [Keys -> PrevVals]
PrevInputs == {NoContext} \cup Contexts

\* values the oracle may give a field
OracleVals == {None, "null", "", "Whatever", "vegan"}
OracleQuestion == "Which cuisine do you prefer?"
OracleQuestionLists == {<<>>, <<OracleQuestion>>}
Payloads ==
    [diet_type : OracleVals, cuisine : OracleVals, dish_attributes : OracleVals,
     clarifying_questions : OracleQuestionLists]
DefaultPayload ==
    [diet_type |-> "vegan", cuisine |-> None, dish_attributes |-> None,
     clarifying_questions |-> <<>>]

(***************************************************************************)
(* The oracle's raw text is a sequence of characters of four kinds: "{",   *)
(* "}", "b" (the members of one JSON object, whose content is the          *)
(* payload), "5" (a JSON number) and "x" (any other prose).                *)
(***************************************************************************)
DirectText == <<"{", "b", "}">>
DecoratedText == <<"x", "{", "b", "}", "x">>
DecodableTexts == {DirectText, DecoratedText}
UndecodableTexts ==
    { <<"x">>,                                  \* prose, no braces
      <<"x", "{", "b">>,                        \* never closed
      <<"}", "x", "{">>,                        \* closed before opened
      <<"{", "b", "}", "x", "{", "b", "}">>,    \* two objects: span is no JSON
      <<"5">> }                                 \* JSON, but no object
RawTexts == DecodableTexts \cup UndecodableTexts

OracleOutcomes ==
    {[kind |-> "raise"]}
    \cup {[kind |-> "text", chars |-> c, body |-> p] :
              c \in DecodableTexts, p \in Payloads}
    \cup {[kind |-> "text", chars |-> c, body |-> DefaultPayload] :
              c \in UndecodableTexts}

\* --------------------------------------------------------- Python helpers
\* bool(v) of a string or None
Truthy(v) == v # None /\ v # ""

\* str.lower() on the strings of the model
Lower(s) ==
    CASE s = "Whatever" -> "whatever"
      [] s = "Spicy Food" -> "spicy food"
      [] s = "No Preference" -> "no preference"
      [] OTHER -> s

\* dict.get(key) on a previous_context that may be falsy
PrevGet(previous_context, key) ==
    IF previous_context = NoContext THEN None ELSE previous_context[key]


\* ------------------------------------------------------------- decoding
NotADict == [number |-> 5]

\* json.loads(text): the decoded value, or a JSONDecodeError
json_loads(chars, body) ==
    IF chars = <<"{", "b", "}">> THEN [ok |-> TRUE, value |-> body]
    ELSE IF chars = <<"5">> THEN [ok |-> TRUE, value |-> NotADict]
    ELSE [ok |-> FALSE]

\* re.search(r'\{.*\}', text, re.DOTALL).group(): greedy, so from the first
\* "{" to the last "}" of the text; <<>> stands for no match
re_search(chars) ==
    LET opens == {i \in 1..Len(chars) : chars[i] = "{"}
        closes == {i \in 1..Len(chars) : chars[i] = "}"}
    IN IF opens = {} \/ closes = {} THEN <<>>
       ELSE LET first == CHOOSE i \in opens : \A j \in opens : i <= j
                last == CHOOSE i \in closes : \A j \in closes : j <= i
            IN IF first < last THEN SubSeq(chars, first, last) ELSE <<>>

\* mutant: a reply that cannot be decoded is replaced by a default context
ParseResponseDefaults(chars, body) ==
    LET direct == json_loads(chars, body) IN
    IF direct.ok THEN direct
    ELSE LET inner == json_loads(re_search(chars), body) IN
         IF inner.ok THEN inner ELSE [ok |-> TRUE, value |-> DefaultPayload]

\* the try/except around json.loads: the decoded value or the exception
\* that leaves the block
ParseResponse(chars, body) ==
    LET direct == json_loads(chars, body) IN
    IF direct.ok THEN direct
    ELSE LET json_match == re_search(chars) IN
         IF json_match # <<>>
         THEN LET inner == json_loads(json_match, body) IN
              IF inner.ok THEN inner
              ELSE [ok |-> FALSE, error |-> "JSONDecodeError"]
         ELSE [ok |-> FALSE, error |-> "Could not parse Gemini response as JSON"]

\* ------------------------------------------------- the steps of one turn
\* Convert string 'null' to actual null
NullToNone(context) ==
    [k \in DOMAIN context |->
        IF k \in Keys /\ context[k] = "null" THEN None ELSE context[k]]

\* mutant: the value is lower-cased in place instead of in the comparison
NoPreferenceLowersLate(context) ==
    [k \in DOMAIN context |->
        IF k \in Keys /\ Truthy(context[k])
        THEN (IF context[k] \in no_preference_phrases
              THEN "any" ELSE Lower(context[k]))
        ELSE context[k]]

\* Handle "no preference" responses
NoPreference(context) ==
    [k \in DOMAIN context |->
        IF k \in Keys /\ Truthy(context[k])
              /\ Lower(context[k]) \in no_preference_phrases
        THEN "any" ELSE context[k]]

\* mutant: the previous context is never merged in
MergeDropsPrevious(context, previous_context) == context

\* mutant: an established previous value wins over the new one
MergePreviousWins(context, previous_context) ==
    [k \in DOMAIN context |->
        IF k \in Keys /\ previous_context[k] # None
        THEN previous_context[k] ELSE context[k]]

\* Keep non-null values from previous context
Merge(context, previous_context) ==
    [k \in DOMAIN context |->
        IF k \in Keys /\ context[k] = None /\ previous_context[k] # None
        THEN previous_context[k] ELSE context[k]]

\* the canonical questions of the keys whose value is falsy, in key order
RECURSIVE MissingQuestions(_, _)
MissingQuestions(context, i) ==
    IF i > Len(FieldKeys) THEN <<>>
    ELSE (IF ~Truthy(context[FieldKeys[i]])
          THEN <<QuestionFor(FieldKeys[i])>> ELSE <<>>)
         \o MissingQuestions(context, i + 1)

\* mutant: a follow-up keeps the oracle's questions, as the initial request
FollowUpKeepsOracleQuestions(context) ==
    IF context.clarifying_questions = <<>>
    THEN [context EXCEPT !.clarifying_questions = MissingQuestions(context, 1)]
    ELSE context

\* follow-up: the questions are always rebuilt from the merged fields
FollowUpQuestions(context) ==
    [context EXCEPT !.clarifying_questions = MissingQuestions(context, 1)]

\* mutant: the initial request rebuilds the questions too
InitialQuestionsRebuilt(context) ==
    [context EXCEPT !.clarifying_questions = MissingQuestions(context, 1)]

\* initial request: the oracle's questions, rebuilt only when it gave none
InitialQuestions(context) ==
    IF context.clarifying_questions = <<>>
    THEN [context EXCEPT !.clarifying_questions = MissingQuestions(context, 1)]
    ELSE context

\* mutant: no default for a field that is still empty
EnsureFieldsNoDefault(context) == context

\* mutant: only an empty string gets the default, a null stays
EnsureFieldsSkipsNone(context) ==
    [k \in DOMAIN context |->
        IF k \in Keys /\ context[k] = "" THEN "any" ELSE context[k]]

\* Ensure all required fields exist
EnsureFields(context) ==
    [k \in DOMAIN context |->
        IF k \in Keys /\ ~Truthy(context[k]) THEN "any" ELSE context[k]]

\* mutant: the bound is reached one turn late
BoundReachedLate(clarification_count) ==
    clarification_count > MAX_CLARIFICATIONS

\* mutant: only the turn that hits the maximum exactly runs the bound path
BoundReachedExactly(clarification_count) ==
    clarification_count = MAX_CLARIFICATIONS

\* the turn runs the bound path
BoundReached(clarification_count) == clarification_count >= MAX_CLARIFICATIONS

\* mutant: the bound path forgets the 'null' string
BoundContextKeepsNull(previous_context) ==
    [k \in Keys \cup {"clarifying_questions"} |->
        IF k = "clarifying_questions" THEN <<>>
        ELSE IF ~Truthy(PrevGet(previous_context, k))
             THEN "any" ELSE PrevGet(previous_context, k)]

\* mutant: the bound path defaults every field
BoundContextAllAny(previous_context) ==
    [k \in Keys \cup {"clarifying_questions"} |->
        IF k = "clarifying_questions" THEN <<>> ELSE "any"]

\* maximum clarifications reached: defaults for the missing fields
BoundContext(previous_context) ==
    [k \in Keys \cup {"clarifying_questions"} |->
        IF k = "clarifying_questions" THEN <<>>
        ELSE IF ~Truthy(PrevGet(previous_context, k))
                 \/ PrevGet(previous_context, k) = "null"
             THEN "any" ELSE PrevGet(previous_context, k)]

\* the prompt sent to the oracle
Prompt(text, previous_context) ==
    IF previous_context # NoContext
    THEN [template |-> "follow_up", text |-> text,
          previous |-> [k \in Keys |-> previous_context[k]]]
    ELSE [template |-> "initial", text |-> text]

\* lines 141-162: the decoded dict after null conversion, no-preference
\* handling and, on a follow-up, the merge with previous_context
Merged(context0, previous_context) ==
    LET normal == NoPreference(NullToNone(context0)) IN
    IF previous_context # NoContext
    THEN Merge(normal, previous_context) ELSE normal

\* lines 164-196: the questions, then the defaults
Finish(context, previous_context) ==
    EnsureFields(IF previous_context # NoContext
                 THEN FollowUpQuestions(context)
                 ELSE InitialQuestions(context))

Ok(context) == [status |-> 200, body |-> context]
Error(code, message) == [status |-> code, error |-> message]
NotCalled == [called |-> FALSE]
NotMerged == [reached |-> FALSE]

\* mutant: the text is looked for only after the bound check
NoTextProvidedBelowBound(req) ==
    req.text = Missing /\ req.clarification_count < MAX_CLARIFICATIONS

\* not data or 'text' not in data
NoTextProvided(req) == req.text = Missing

\* the turn stopped before the merge
Stopped(resp, call) ==
    [response |-> resp, oracle |-> call, merged |-> NotMerged]

\* the whole handler: the response, the oracle call it made and the context
\* it held after the merge, given the request and what the oracle answers
extract_context(req, outcome) ==
    IF NoTextProvided(req)
    THEN Stopped(Error(400, "No text provided"), NotCalled)
    ELSE IF req.text = None
    THEN Stopped(Error(500, "AttributeError"), NotCalled)
    ELSE IF BoundReached(req.clarification_count)
    THEN Stopped(Ok(BoundContext(req.previous_context)), NotCalled)
    ELSE
      LET call == [called |-> TRUE,
                   prompt |-> Prompt(Lower(req.text), req.previous_context),
                   outcome |-> outcome]
      IN IF outcome.kind = "raise"
         THEN Stopped(Error(500, "oracle call failed"), call)
         ELSE LET parsed == ParseResponse(outcome.chars, outcome.body) IN
              IF ~parsed.ok
              THEN Stopped(Error(500, parsed.error), call)
              ELSE IF parsed.value = NotADict
              THEN Stopped(Error(500, "AttributeError"), call)
              ELSE LET context == Merged(parsed.value, req.previous_context)
                   IN [response |-> Ok(Finish(context, req.previous_context)),
                       oracle |-> call,
                       merged |-> [k \in Keys |-> context[k]]]

\* ---------------------------------------------------------------- state
VARIABLES
    pc,         \* "idle", "received", "responded" or "done"
    request,    \* the request of the turn in progress
    oracle,     \* the oracle call of the turn: NotCalled, or prompt and outcome
    merged,     \* the three fields after the merge step, NotMerged if not run
    response,   \* the response of the turn
    session,    \* the caller's session: the context it holds, its counter
    norm,       \* a field triple and its successive normalizations
    fetch       \* a get_all_recipes call: what the sources do, its result

vars == <<pc, request, oracle, merged, response, session, norm, fetch>>

NoRequest == [none |-> TRUE]
NoResponse == [status |-> 0]
NoSession == [active |-> FALSE]
NoFetch == [stage |-> "idle"]

Requests ==
    [text : TextInputs, previous_context : PrevInputs,
     clarification_count : 0..MaxCount]

\* one request, from any caller
Init ==
    /\ pc = "received"
    /\ request \in Requests
    /\ oracle = NotCalled
    /\ merged = NotMerged
    /\ response = NoResponse
    /\ session = NoSession
    /\ norm = <<>>
    /\ fetch = NoFetch

\* POST /extract_context
ExtractContext ==
    /\ pc = "received"
    /\ \E outcome \in OracleOutcomes :
          LET r == extract_context(request, outcome) IN
          /\ response' = r.response
          /\ oracle' = r.oracle
          /\ merged' = r.merged
    /\ pc' = "responded"
    /\ UNCHANGED <<request, session, norm, fetch>>

Next == ExtractContext

Spec == Init /\ [][Next]_vars

(***************************************************************************)
(* A session: the caller starts with no context and a counter of 0, sends  *)
(* a turn, threads the returned context back as previous_context and adds  *)
(* one to the counter after every turn that returns questions.  A failed   *)
(* turn returns no context; the caller sends the turn again.               *)
(***************************************************************************)
SessionInit ==
    /\ pc = "idle"
    /\ request = NoRequest
    /\ oracle = NotCalled
    /\ merged = NotMerged
    /\ response = NoResponse
    /\ session = [active |-> TRUE, previous_context |-> NoContext,
                  clarification_count |-> 0]
    /\ norm = <<>>
    /\ fetch = NoFetch

Submit ==
    /\ pc = "idle"
    /\ \E text \in Texts :
          request' = [text |-> text,
                      previous_context |-> session.previous_context,
                      clarification_count |-> session.clarification_count]
    /\ pc' = "received"
    /\ oracle' = NotCalled
    /\ merged' = NotMerged
    /\ response' = NoResponse
    /\ UNCHANGED <<session, norm, fetch>>

Receive ==
    /\ pc = "responded"
    /\ session.active
    /\ IF response.status # 200
       THEN pc' = "idle" /\ UNCHANGED session
       ELSE LET returned == [k \in Keys |-> response.body[k]] IN
            IF response.body.clarifying_questions # <<>>
            THEN /\ session.clarification_count < MaxCount
                 /\ session' = [session EXCEPT
                        !.previous_context = returned,
                        !.clarification_count = @ + 1]
                 /\ pc' = "idle"
            ELSE /\ session' = [session EXCEPT !.previous_context = returned]
                 /\ pc' = "done"
    /\ UNCHANGED <<request, oracle, merged, response, norm, fetch>>

SessionNext == Submit \/ ExtractContext \/ Receive

SessionSpec == SessionInit /\ [][SessionNext]_vars

(***************************************************************************)
(* The no-preference handling of lines 146-151 on its own: any triple of   *)
(* field values, normalized again and again.                               *)
(***************************************************************************)
NormVals == OracleVals \cup {"any", "No Preference"}

NormInit ==
    /\ pc = "normalize"
    /\ request = NoRequest
    /\ oracle = NotCalled
    /\ merged = NotMerged
    /\ response = NoResponse
    /\ session = NoSession
    /\ \E triple \in [Keys -> NormVals] : norm = <<triple>>
    /\ fetch = NoFetch

Normalize ==
    /\ pc = "normalize"
    /\ Len(norm) <= MaxApply
    /\ norm' = Append(norm, NoPreference(norm[Len(norm)]))
    /\ UNCHANGED <<pc, request, oracle, merged, response, session, fetch>>

NormNext == Normalize

NormSpec == NormInit /\ [][NormNext]_vars

(***************************************************************************)
(* RecipeSource.get_all_recipes of backend/recipe_sources.py.  What a      *)
(* source does is given by an outcome: how many items its search finds     *)
(* and which step, if any, raises (step 0 is the search request itself,    *)
(* step i the work on item i).  A call returns a list or raises.           *)
(***************************************************************************)
Returned(recipes) == [raised |-> FALSE, recipes |-> recipes]
Raised == [raised |-> TRUE, recipes |-> <<>>]

Failures(n) ==
    {[raises |-> FALSE]} \cup {[raises |-> TRUE, step |-> j] : j \in 0..n}
RaisesAt(outcome, step) ==
    outcome.failure.raises /\ outcome.failure.step = step

SpoonacularOutcomes ==
    UNION {[items : {n}, failure : Failures(n)] : n \in 0..MaxItems}
\* analysed: _analyze_recipe_nutrition got an analysis, else its defaults
YouTubeOutcomes ==
    UNION {[items : {n}, failure : Failures(n), analysed : BOOLEAN] :
              n \in 0..MaxItems}
\* decodes: the model's text for the blog search is JSON
BlogOutcomes ==
    UNION {[items : {n}, failure : Failures(n), analysed : BOOLEAN,
            decodes : BOOLEAN] : n \in 0..MaxItems}

\* _analyze_recipe_nutrition never raises: an analysis or the default notes
analyze_recipe_nutrition(outcome) ==
    IF outcome.analysed THEN "analysed"
    ELSE "Error occurred during nutrition analysis"

SpoonacularRecipe(i) == [source |-> "Spoonacular", item |-> i]
AnalysedRecipe(source, outcome, i) ==
    [source |-> source, item |-> i,
     nutrition_notes |-> analyze_recipe_nutrition(outcome)]

\* the loop over the items of the Spoonacular search, from item i on
RECURSIVE SpoonacularLoop(_, _, _)
SpoonacularLoop(outcome, i, recipes) ==
    IF i > outcome.items THEN Returned(recipes)
    ELSE IF RaisesAt(outcome, i) THEN Raised
    ELSE SpoonacularLoop(outcome, i + 1, Append(recipes, SpoonacularRecipe(i)))

\* the loop over the items of the YouTube or blog search, from item i on
RECURSIVE AnalysedLoop(_, _, _, _)
AnalysedLoop(source, outcome, i, recipes) ==
    IF i > outcome.items THEN Returned(recipes)
    ELSE IF RaisesAt(outcome, i) THEN Raised
    ELSE AnalysedLoop(source, outcome, i + 1,
                      Append(recipes, AnalysedRecipe(source, outcome, i)))

\* except Exception: return []
Caught(body) == IF body.raised THEN Returned(<<>>) ELSE body

\* mutant: a failure keeps the recipes collected before it
get_spoonacular_recipes_partial(outcome) ==
    IF outcome.failure.raises
    THEN Returned([i \in 1..outcome.failure.step - 1 |-> SpoonacularRecipe(i)])
    ELSE SpoonacularLoop(outcome, 1, <<>>)

get_spoonacular_recipes(outcome) ==
    Caught(IF RaisesAt(outcome, 0) THEN Raised
           ELSE SpoonacularLoop(outcome, 1, <<>>))

get_youtube_recipes(outcome) ==
    Caught(IF RaisesAt(outcome, 0) THEN Raised
           ELSE AnalysedLoop("YouTube", outcome, 1, <<>>))

get_blog_recipes(outcome) ==
    Caught(IF RaisesAt(outcome, 0) THEN Raised
           ELSE IF ~outcome.decodes THEN Returned(<<>>)
           ELSE AnalysedLoop("Blog", outcome, 1, <<>>))

\* recipes.extend(the recipes of a source), when the source is asked
Extend(sofar, asked, source) ==
    IF sofar.raised \/ ~asked THEN sofar
    ELSE IF source.raised THEN Raised
    ELSE Returned(sofar.recipes \o source.recipes)

get_all_recipes(call) ==
    LET spoonacular ==
            Extend(Returned(<<>>), call.spoonacular_api_key,
                   get_spoonacular_recipes(call.spoonacular))
        youtube ==
            Extend(spoonacular, call.youtube_api_key,
                   get_youtube_recipes(call.youtube))
    IN Extend(youtube, TRUE, get_blog_recipes(call.blog))

RecipeInit ==
    /\ pc = "recipes"
    /\ request = NoRequest
    /\ oracle = NotCalled
    /\ merged = NotMerged
    /\ response = NoResponse
    /\ session = NoSession
    /\ norm = <<>>
    /\ \E call \in [spoonacular_api_key : BOOLEAN, youtube_api_key : BOOLEAN,
                     spoonacular : SpoonacularOutcomes,
                     youtube : YouTubeOutcomes, blog : BlogOutcomes] :
          fetch = [stage |-> "called", call |-> call, result |-> Returned(<<>>)]

GetAllRecipes ==
    /\ pc = "recipes"
    /\ fetch.stage = "called"
    /\ fetch' = [fetch EXCEPT !.stage = "done",
                              !.result = get_all_recipes(fetch.call)]
    /\ UNCHANGED <<pc, request, oracle, merged, response, session, norm>>

RecipeNext == GetAllRecipes

RecipeSpec == RecipeInit /\ [][RecipeNext]_vars


\* ------------------------------------------------------------ properties
\* vocabulary of the properties: a field value is Unset when it is null,
\* the text "null" or empty, and resolved ("any" or a concrete text) otherwise
IsUnset(v) == v \in {None, "null", ""}
IsResolved(v) == ~IsUnset(v)

Succeeded == pc = "responded" /\ response.status = 200
BelowBound == request.clarification_count < 3
FirstTurn == BelowBound /\ request.previous_context = NoContext
FollowUp == BelowBound /\ request.previous_context # NoContext

\* what the oracle's decoded reply held, on a turn that succeeded below the bound
OracleField(k) == oracle.outcome.body[k]
OracleQuestions == oracle.outcome.body.clarifying_questions

\* one canonical question per Unset field, in the order of the fields
ExpectedQuestions(fields) ==
    (IF IsUnset(fields.diet_type) THEN <<DietQuestion>> ELSE <<>>)
    \o (IF IsUnset(fields.cuisine) THEN <<CuisineQuestion>> ELSE <<>>)
    \o (IF IsUnset(fields.dish_attributes) THEN <<AttributesQuestion>> ELSE <<>>)

\* C1: a turn with clarification_count >= 3 and a text succeeds with no
\* clarifying questions and with every field resolved, whatever the
\* previous_context holds (absent, null, empty, "null").
C1_BoundTurnResolved ==
    (pc = "responded" /\ request.text \in Texts
        /\ request.clarification_count >= 3)
    => /\ response.status = 200
       /\ response.body.clarifying_questions = <<>>
       /\ \A k \in Keys : IsResolved(response.body[k])

C1_Witness ==
    /\ Succeeded
    /\ request.clarification_count >= 3
    /\ request.previous_context # NoContext
    /\ request.previous_context.diet_type = "null"
    /\ request.previous_context.cuisine = ""
    /\ request.previous_context.dish_attributes = None
    /\ \A k \in Keys : response.body[k] = "any"

\* C2: in a session that threads the returned context back and counts the
\* turns that returned questions, the counter never passes 3 and the turn
\* sent with clarification_count = 3 returns no questions, so at most three
\* turns of a session return questions, whatever the oracle answers.
C2_SessionBounded ==
    session.active
    => /\ session.clarification_count <= 3
       /\ (pc = "responded" /\ request.clarification_count = 3)
          => (response.status = 200
              /\ response.body.clarifying_questions = <<>>)
       /\ pc = "done" => response.body.clarifying_questions = <<>>

C2_Witness ==
    /\ session.active
    /\ pc = "done"
    /\ session.clarification_count = 3
    /\ request.clarification_count = 3

\* C3: on a follow-up turn below the bound, a field the oracle leaves Unset
\* (null or "null") while previous_context holds a resolved value for it is
\* returned with the previous_context value.
C3_UnsetKeepsPrevious ==
    (Succeeded /\ FollowUp)
    => \A k \in Keys :
          (OracleField(k) \in {None, "null"}
              /\ IsResolved(request.previous_context[k]))
          => response.body[k] = request.previous_context[k]

C3_Witness ==
    /\ Succeeded
    /\ FollowUp
    /\ OracleField("diet_type") = "null"
    /\ request.previous_context.diet_type = "italian"
    /\ response.body.diet_type = "italian"
    /\ OracleField("cuisine") = None
    /\ request.previous_context.cuisine = "any"
    /\ response.body.cuisine = "any"

\* C4: on a follow-up turn below the bound, a field for which the oracle
\* gives a concrete text or a no-preference phrase is returned with the new
\* value ("any" for a phrase), whatever previous_context held for it.
C4_NewValueWins ==
    (Succeeded /\ FollowUp)
    => \A k \in Keys :
          IsResolved(OracleField(k))
          => response.body[k] =
                (IF Lower(OracleField(k)) \in no_preference_phrases
                 THEN "any" ELSE OracleField(k))

C4_Witness ==
    /\ Succeeded
    /\ FollowUp
    /\ OracleField("diet_type") = "vegan"
    /\ request.previous_context.diet_type = "italian"
    /\ response.body.diet_type = "vegan"
    /\ OracleField("cuisine") = "Whatever"
    /\ request.previous_context.cuisine = "italian"
    /\ response.body.cuisine = "any"
    /\ OracleField("dish_attributes") = "vegan"
    /\ request.previous_context.dish_attributes = None

\* C5, as stated: on a successful turn below the bound, a field that is
\* still Unset after the merge is returned Unset, not coerced to "any".
C5_UnsetStaysUnset ==
    (Succeeded /\ BelowBound)
    => \A k \in Keys : IsUnset(merged[k]) => IsUnset(response.body[k])

\* C5, amended: on a successful turn below the bound no field is returned
\* null or empty; a field that is null, absent or empty after the merge is
\* returned as "any", as on the bound path.
C5_UnsetDefaultsToAny ==
    (Succeeded /\ BelowBound)
    => \A k \in Keys :
          /\ response.body[k] \notin {None, ""}
          /\ merged[k] \in {None, ""} => response.body[k] = "any"

C5_Witness ==
    /\ Succeeded
    /\ BelowBound
    /\ merged.diet_type = None
    /\ merged.cuisine = ""
    /\ response.body.diet_type = "any"
    /\ response.body.cuisine = "any"
    /\ response.body.clarifying_questions # <<>>

\* C6, as stated: on every successful turn, if all three fields are resolved
\* after the merge (or the bound path ran), no clarifying question is returned.
C6_ResolvedAsksNothing ==
    Succeeded
    => IF ~BelowBound THEN response.body.clarifying_questions = <<>>
       ELSE (\A k \in Keys : IsResolved(merged[k]))
            => response.body.clarifying_questions = <<>>

\* C6, amended: the same, except on a first turn where the oracle supplied a
\* non-empty list of questions: that list is returned as it is, also when
\* all three fields are resolved.
C6_ResolvedAsksNothingButOracle ==
    Succeeded
    => IF ~BelowBound THEN response.body.clarifying_questions = <<>>
       ELSE (\A k \in Keys : IsResolved(merged[k]))
            => IF FirstTurn /\ OracleQuestions # <<>>
               THEN response.body.clarifying_questions = OracleQuestions
               ELSE response.body.clarifying_questions = <<>>

C6_Witness ==
    /\ Succeeded
    /\ FollowUp
    /\ \A k \in Keys : IsResolved(merged[k])
    /\ OracleQuestions # <<>>
    /\ OracleField("diet_type") = None
    /\ response.body.clarifying_questions = <<>>

\* C7: on a first turn below the bound, a non-empty list of questions from
\* the oracle is returned as it is; otherwise the list holds one canonical
\* question per field Unset after normalization, in the order diet_type,
\* cuisine, dish_attributes.
C7_FirstTurnQuestions ==
    (Succeeded /\ FirstTurn)
    => IF OracleQuestions # <<>>
       THEN response.body.clarifying_questions = OracleQuestions
       ELSE response.body.clarifying_questions = ExpectedQuestions(merged)

C7_Witness ==
    /\ Succeeded
    /\ FirstTurn
    /\ OracleQuestions = <<>>
    /\ OracleField("diet_type") = None
    /\ OracleField("cuisine") = "null"
    /\ OracleField("dish_attributes") = "vegan"
    /\ response.body.clarifying_questions = <<DietQuestion, CuisineQuestion>>

\* C8: on a follow-up turn below the bound, the returned questions are the
\* canonical questions of the fields still Unset after the merge, in the
\* order of the fields, whatever questions the oracle supplied.
C8_FollowUpQuestions ==
    (Succeeded /\ FollowUp)
    => response.body.clarifying_questions = ExpectedQuestions(merged)

\* C9: no successful turn returns the text "null" as the value of a field.
C9_NoNullText ==
    Succeeded => \A k \in Keys : response.body[k] # "null"

\* the text is one JSON object, or its span from the first "{" to the last
\* "}" is one
IsObjectText(chars) == chars = <<"{", "b", "}">>
Decodable(chars) ==
    \/ IsObjectText(chars)
    \/ \E i, j \in 1..Len(chars) :
          /\ i < j
          /\ chars[i] = "{" /\ \A h \in 1..(i - 1) : chars[h] # "{"
          /\ chars[j] = "}" /\ \A h \in (j + 1)..Len(chars) : chars[h] # "}"
          /\ IsObjectText(SubSeq(chars, i, j))

\* C10: when the oracle call fails, or its text decodes to a JSON object
\* neither directly nor from its first-"{"-to-last-"}" span, the turn ends
\* in an error response that carries an error message and nothing else.
C10_FailureIsErrorOnly ==
    (pc = "responded" /\ oracle.called
        /\ (\/ oracle.outcome.kind = "raise"
            \/ ~Decodable(oracle.outcome.chars)))
    => /\ response.status = 500
       /\ DOMAIN response = {"status", "error"}
       /\ merged = NotMerged

C10_Witness ==
    /\ pc = "responded"
    /\ oracle.called
    /\ oracle.outcome.kind = "text"
    /\ Len(oracle.outcome.chars) = 7
    /\ response.status = 500
    /\ response.error = "JSONDecodeError"


\* C11: a request without a text (or with an empty body) is rejected with a
\* client error before any other step: no oracle call, no merge and no
\* context in the response, for every clarification_count and
\* previous_context.
C11_MissingTextRejected ==
    (pc = "responded" /\ request.text = Missing)
    => /\ response.status = 400
       /\ DOMAIN response = {"status", "error"}
       /\ oracle = NotCalled
       /\ merged = NotMerged

C11_Witness ==
    /\ pc = "responded"
    /\ request.text = Missing
    /\ request.clarification_count >= 3
    /\ request.previous_context # NoContext
    /\ response.status = 400
    /\ response.error = "No text provided"

\* C13: a turn with clarification_count >= 3 never calls the oracle and
\* never runs decoding, normalization, merge or question synthesis.
C13_BoundTurnSkipsOracle ==
    (pc = "responded" /\ request.clarification_count >= 3)
    => /\ oracle = NotCalled
       /\ merged = NotMerged

C13_Witness ==
    /\ Succeeded
    /\ request.clarification_count > 3
    /\ request.previous_context # NoContext
    /\ request.previous_context.diet_type = None
    /\ oracle = NotCalled
    /\ merged = NotMerged

\* C15: on a successful turn with clarification_count >= 3 the response is
\* a function of previous_context alone: a resolved field keeps its value,
\* any other field is "any", the questions are empty; the text plays no part.
C15_BoundTurnFrame ==
    (Succeeded /\ request.clarification_count >= 3)
    => /\ \A k \in Keys :
             response.body[k] =
                (IF IsResolved(PrevGet(request.previous_context, k))
                 THEN request.previous_context[k] ELSE "any")
       /\ response.body.clarifying_questions = <<>>
       /\ DOMAIN response.body = Keys \cup {"clarifying_questions"}

C15_Witness ==
    /\ Succeeded
    /\ request.clarification_count >= 3
    /\ request.text = "vegan pasta"
    /\ request.previous_context # NoContext
    /\ request.previous_context.diet_type = "italian"
    /\ request.previous_context.cuisine = "any"
    /\ request.previous_context.dish_attributes = "null"
    /\ response.body.diet_type = "italian"
    /\ response.body.cuisine = "any"
    /\ response.body.dish_attributes = "any"


\* C12: the no-preference normalization is idempotent: normalizing a triple
\* that was already normalized once changes nothing.
C12_NormalizationIdempotent ==
    \A i \in 2..(Len(norm) - 1) : norm[i + 1] = norm[i]

C12_Witness ==
    /\ Len(norm) >= 3
    /\ norm[1].diet_type = "Whatever"
    /\ norm[1].cuisine = "No Preference"
    /\ norm[1].dish_attributes = None
    /\ norm[2].diet_type = "any"
    /\ norm[2].cuisine = "any"
    /\ norm[2].dish_attributes = None
    /\ norm[3] = norm[2]


\* C14: in a session that threads each returned context back, a follow-up
\* turn below the bound whose oracle reply gives every field null, "null" or
\* a non-empty text returns no clarifying questions: every field of the
\* threaded context is non-empty, so nothing is left to ask.
C14_FollowUpAsksNothing ==
    (session.active /\ Succeeded /\ FollowUp
        /\ \A k \in Keys : OracleField(k) # "")
    => /\ \A k \in Keys : Truthy(request.previous_context[k])
       /\ response.body.clarifying_questions = <<>>

C14_Witness ==
    /\ session.active
    /\ Succeeded
    /\ FollowUp
    /\ session.clarification_count = 1
    /\ \A k \in Keys : OracleField(k) = None
    /\ OracleQuestions # <<>>
    /\ \A k \in Keys : request.previous_context[k] = "any"
    /\ response.body.clarifying_questions = <<>>


\* a source's whole list when it was asked and no step of it failed, else
\* nothing; recipes are named by source and item
Contribution(source, asked, outcome, decodes) ==
    IF asked /\ ~outcome.failure.raises /\ decodes
    THEN [i \in 1..outcome.items |-> <<source, i>>]
    ELSE <<>>
Labels(recipes) ==
    [i \in 1..Len(recipes) |-> <<recipes[i].source, recipes[i].item>>]

\* C16: get_all_recipes never raises; its result is the concatenation, in
\* the order Spoonacular, YouTube, Blog, of each source's complete list or,
\* when a step of that source fails (also on a later item), of nothing.
C16_SourcesFailAlone ==
    fetch.stage = "done"
    => /\ ~fetch.result.raised
       /\ Labels(fetch.result.recipes) =
             Contribution("Spoonacular", fetch.call.spoonacular_api_key,
                          fetch.call.spoonacular, TRUE)
             \o Contribution("YouTube", fetch.call.youtube_api_key,
                             fetch.call.youtube, TRUE)
             \o Contribution("Blog", TRUE, fetch.call.blog,
                             fetch.call.blog.decodes)

C16_Witness ==
    /\ fetch.stage = "done"
    /\ fetch.call.spoonacular_api_key
    /\ fetch.call.youtube_api_key
    /\ fetch.call.spoonacular.items = 2
    /\ RaisesAt(fetch.call.spoonacular, 2)
    /\ fetch.call.youtube.items = 2
    /\ ~fetch.call.youtube.failure.raises
    /\ fetch.call.blog.items = 1
    /\ ~fetch.call.blog.failure.raises
    /\ fetch.call.blog.decodes
    /\ ~fetch.call.blog.analysed
    /\ Labels(fetch.result.recipes) =
          << <<"YouTube", 1>>, <<"YouTube", 2>>, <<"Blog", 1>> >>

=============================================================================
